---- MODULE Spec2Model ----
(***************************************************************************)
(* Line-21 closed-caption decoder (decode_cc.py): decodeFrame, the frame   *)
(* decoder, and getByteStream, the pool-driven batch driver.               *)
(*                                                                         *)
(* Indices are the Python (0-based) indices of the source; At(seq, i)      *)
(* reads a TLA+ sequence at a Python index.                                *)
(*                                                                         *)
(* Floating point.  The source compares integers against width * 0.05,     *)
(* 0.2 * width and 0.3 * width, takes ceil((L / 0.251) * 0.038) and        *)
(* floor(100 * (p / maxluma)).  For every width below 400, every L below   *)
(* 300 and every pixel/peak pair of 8-bit values the IEEE-754 results      *)
(* classify exactly as the integer inequalities used here (the floor       *)
(* differs from the exact quotient for nine pixel/peak pairs, never across *)
(* one of the thresholds 45, 50, 55).                                      *)
(***************************************************************************)
EXTENDS Integers, Sequences, FiniteSets, TLC

VARIABLES
    pixels,      \* the Sample Row: pixels[x, 0] for x in range(width)
    DEBUG,       \* the DEBUG argument
    pc,          \* stage of the running decodeFrame call
    trace,       \* stages visited so far, in order
    values,      \* the list `values`: raw samples, then the binary row
    startRunIn,
    stopRunIn,
    bitWidth,
    bitStart,
    sanity,      \* the tuple (getBit(-3), getBit(-2), getBit(-1))
    data,        \* the list `data` of assembled bytes
    result,      \* what decodeFrame returned
    reads,       \* indices used to subscript `values` from line 176 on
    enc,         \* parameters the Sample Row was built from
    images,      \* getByteStream: the input list
    threads,     \* getByteStream: pool size
    taskq,       \* pool: indices of tasks not yet taken by a worker
    running,     \* pool: worker -> index of the task it runs, 0 when idle
    results,     \* pool: index -> return value of decodeFrame, once known
    bytes,       \* getByteStream: the bytearray
    ri,          \* getByteStream: position of `for r in results`
    doneOrder,   \* pool: task indices in the order the workers finished them
    pcB          \* stage of the running getByteStream call

frameVars == <<pixels, DEBUG, pc, trace, values, startRunIn, stopRunIn,
               bitWidth, bitStart, sanity, data, result, reads, enc>>
batchVars == <<images, threads, taskq, running, results, bytes, ri,
               doneOrder, pcB>>
vars == <<pixels, DEBUG, pc, trace, values, startRunIn, stopRunIn,
          bitWidth, bitStart, sanity, data, result, reads, enc,
          images, threads, taskq, running, results, bytes, ri, doneOrder,
          pcB>>

(***************************************************************************)
(* Bounds of the model.                                                    *)
(***************************************************************************)
MaxShift == 3
MaxStretch == 2
MaxCut == 2
MaxPad == 1
MaxFrames == 3
MaxWorkers == 2

(***************************************************************************)
(* Constants of the program.                                               *)
(***************************************************************************)
BlankLuma == 32
HystLow == 45
HystHigh == 55
MidLevel == 50
RunInChanges == 13

At(seq, i) == seq[i + 1]
Range(seq) == {seq[i] : i \in 1..Len(seq)}
Rep(v, n) == [i \in 1..n |-> v]

(***************************************************************************)
(* Return values of decodeFrame.                                           *)
(***************************************************************************)
Pending == [ret |-> "pending", val |-> <<>>]
ReturnNone == [ret |-> "None", val |-> <<>>]
RaisedIndexError == [ret |-> "IndexError", val |-> <<>>]
Returned(v) == [ret |-> "value", val |-> v]
Sentinel == Returned(<<0, 0>>)

(***************************************************************************)
(* decodeFrame, lines 92-103: peak search and the blank-line guard.        *)
(***************************************************************************)
MaxLuma(px) ==
    IF px = <<>> THEN 0
    ELSE CHOOSE m \in Range(px) \cup {0} :
             \A i \in 1..Len(px) : px[i] <= m

\* mutant: the guard of line 102 compares against 31
IsBlankMut(maxluma) == maxluma < BlankLuma - 1
IsBlank(maxluma) == maxluma < BlankLuma

(***************************************************************************)
(* decodeFrame, lines 109-116: threshold with hysteresis.                  *)
(***************************************************************************)
Binarize(px, maxluma) ==
    LET f[k \in 0..Len(px)] ==
            IF k = 0 THEN 0
            ELSE LET v == (100 * px[k]) \div maxluma
                 IN  IF HystLow <= v /\ v <= HystHigh THEN f[k - 1]
                     ELSE IF v > MidLevel THEN 1 ELSE 0
    IN  [k \in 1..Len(px) |-> f[k]]

(***************************************************************************)
(* decodeFrame, lines 119-128: leading edge of the run-in.                 *)
(***************************************************************************)
RECURSIVE ScanFirstOne(_, _)
ScanFirstOne(vals, x) ==
    IF x >= Len(vals) THEN 0
    ELSE IF At(vals, x) = 1 THEN x
    ELSE ScanFirstOne(vals, x + 1)

FirstOne(vals) == ScanFirstOne(vals, 0)

TooLate(start, width) == 20 * start > width

(***************************************************************************)
(* decodeFrame, lines 137-160: the 13th value change and its range.        *)
(***************************************************************************)
RECURSIVE RunInScan(_, _, _, _, _)
RunInScan(vals, x, lastVal, count, wanted) ==
    IF x >= Len(vals) THEN 0
    ELSE IF At(vals, x) # lastVal
         THEN IF count + 1 = wanted THEN x
              ELSE RunInScan(vals, x + 1, At(vals, x), count + 1, wanted)
         ELSE RunInScan(vals, x + 1, lastVal, count, wanted)

\* mutant: line 144 stops at the 12th value change
FindStopRunInMut(vals, start) == RunInScan(vals, start, 1, 0, RunInChanges - 1)
FindStopRunIn(vals, start) == RunInScan(vals, start, 1, 0, RunInChanges)

RunInOutOfRange(stop, width) == 5 * stop < width \/ 10 * stop > 3 * width

(***************************************************************************)
(* decodeFrame, lines 165-178: bit width and the start-bit edge.           *)
(***************************************************************************)
BitWidthOf(runInLength) == (38 * runInLength + 250) \div 251

\* mutant: the scan of line 176 stops one column early
EdgeScanContinueMut(vals, b) == At(vals, b) = 0 /\ b < Len(vals) - 2
EdgeScanContinue(vals, b) == At(vals, b) = 0 /\ b < Len(vals) - 1

RECURSIVE EdgeScan(_, _)
EdgeScan(vals, b) ==
    IF EdgeScanContinue(vals, b) THEN EdgeScan(vals, b + 1) ELSE b

(***************************************************************************)
(* getBit, lines 185-206.                                                  *)
(***************************************************************************)
Trunc2(n) == IF n >= 0 THEN n \div 2 ELSE -((-n) \div 2)

Offset(bs, bw, bit) == Trunc2(2 * bs + 2 * bit * bw + bw)

OutOfRange(vals, offset) == offset > Len(vals) - 1 \/ offset < 0

SlotIndices(bs, bw, bit) == {bs + bit * bw + x : x \in 0..(bw - 1)}

\* the indices the diagnostic loop of lines 198-204 subscripts `values` with
DebugReads(vals, bs, bw, bit) ==
    {o \in SlotIndices(bs, bw, bit) : o <= Len(vals)}

\* subscripting a list raises IndexError outside [-len, len)
SubscriptRaises(vals, o) == o >= Len(vals) \/ o < -Len(vals)

GetBitRaises(vals, bs, bw, dbg, bit) ==
    /\ dbg
    /\ ~OutOfRange(vals, Offset(bs, bw, bit))
    /\ \E o \in SlotIndices(bs, bw, bit) : SubscriptRaises(vals, o)

GetBitReads(vals, bs, bw, dbg, bit) ==
    IF OutOfRange(vals, Offset(bs, bw, bit)) THEN {}
    ELSE IF dbg
         THEN DebugReads(vals, bs, bw, bit)
                  \cup (IF GetBitRaises(vals, bs, bw, dbg, bit) THEN {}
                        ELSE {Offset(bs, bw, bit)})
         ELSE {Offset(bs, bw, bit)}

GetBit(vals, bs, bw, bit) ==
    IF OutOfRange(vals, Offset(bs, bw, bit)) THEN -1
    ELSE At(vals, Offset(bs, bw, bit))

(***************************************************************************)
(* decodeFrame, lines 213-217: the sanity tuple.                           *)
(***************************************************************************)
SanityBits == <<-3, -2, -1>>

SanityOf(vals, bs, bw) ==
    [i \in 1..3 |-> GetBit(vals, bs, bw, SanityBits[i])]

SanityRaises(vals, bs, bw, dbg) ==
    \E i \in 1..3 : GetBitRaises(vals, bs, bw, dbg, SanityBits[i])

\* getBit(-3), getBit(-2), getBit(-1) are evaluated in order
SanityReads(vals, bs, bw, dbg) ==
    UNION {GetBitReads(vals, bs, bw, dbg, SanityBits[i]) :
             i \in {j \in 1..3 :
                      \A k \in 1..(j - 1) :
                          ~GetBitRaises(vals, bs, bw, dbg, SanityBits[k])}}

(***************************************************************************)
(* decodeFrame, lines 219-238: one pass of `for base in (0, 8)`.           *)
(***************************************************************************)
\* mutant: line 228 assembles the data bits MSB first
BitWeightMut(b) == 2 ^ (6 - b)
BitWeight(b) == 2 ^ b

\* line 233: (getBit(base + 7) + parity) & 1 != 1
ParityFails(parityBit, parity) == (parityBit + parity) % 2 # 1

RECURSIVE AssembleScan(_, _, _, _, _, _, _, _, _)
AssembleScan(vals, bs, bw, dbg, base, b, byte, parity, rd) ==
    LET bit == base + b
        rd2 == rd \cup GetBitReads(vals, bs, bw, dbg, bit)
        v == GetBit(vals, bs, bw, bit)
    IN  IF GetBitRaises(vals, bs, bw, dbg, bit)
        THEN [kind |-> "IndexError", byte |-> 0, reads |-> rd2]
        ELSE IF b < 7
        THEN IF v = -1
             THEN [kind |-> "ValueError", byte |-> 0, reads |-> rd2]
             ELSE IF v # 0
                  THEN AssembleScan(vals, bs, bw, dbg, base, b + 1,
                                    byte + BitWeight(b), parity + 1, rd2)
                  ELSE AssembleScan(vals, bs, bw, dbg, base, b + 1,
                                    byte, parity, rd2)
        ELSE IF ParityFails(v, parity)
             THEN [kind |-> "ValueError", byte |-> 0, reads |-> rd2]
             ELSE [kind |-> "ok", byte |-> byte, reads |-> rd2]

AssembleByte(vals, bs, bw, dbg, base) ==
    AssembleScan(vals, bs, bw, dbg, base, 0, 0, 0, {})

(***************************************************************************)
(* decodeFrame, lines 240-245: the handler of ValueError.                  *)
(***************************************************************************)
OnValueError(dbg) == IF dbg THEN ReturnNone ELSE Sentinel

(***************************************************************************)
(* decodeFrame as a function of the Sample Row and DEBUG.                  *)
(***************************************************************************)
TryBlock(vals, bs, bw, dbg) ==
    IF SanityRaises(vals, bs, bw, dbg) THEN RaisedIndexError
    ELSE IF SanityOf(vals, bs, bw) # <<0, 0, 1>> THEN OnValueError(dbg)
    ELSE LET first == AssembleByte(vals, bs, bw, dbg, 0)
         IN  IF first.kind = "IndexError" THEN RaisedIndexError
             ELSE IF first.kind = "ValueError" THEN OnValueError(dbg)
             ELSE LET second == AssembleByte(vals, bs, bw, dbg, 8)
                  IN  IF second.kind = "IndexError" THEN RaisedIndexError
                      ELSE IF second.kind = "ValueError"
                           THEN OnValueError(dbg)
                      ELSE Returned(<<first.byte, second.byte>>)

DecodeFrame(px, dbg) ==
    LET maxluma == MaxLuma(px) IN
    IF IsBlank(maxluma) THEN Sentinel
    ELSE LET vals == Binarize(px, maxluma)
             start == FirstOne(vals)
         IN  IF TooLate(start, Len(px)) THEN Sentinel
             ELSE LET stop == FindStopRunIn(vals, start)
                  IN  IF stop = 0 \/ RunInOutOfRange(stop, Len(px))
                      THEN Sentinel
                      ELSE LET bw == BitWidthOf(stop - start)
                               bs == EdgeScan(vals, stop) + bw
                           IN  TryBlock(vals, bs, bw, dbg)

(***************************************************************************)
(* Sample Rows the decoder is run on: a line-21 waveform built from its    *)
(* parameters.  s leading low samples, a run-in whose first high pulse is  *)
(* 1 + e samples and whose other half cycles are one sample, then nineteen *)
(* bit slots (two dead, the start bit, twice seven data bits LSB first and *)
(* an odd-parity bit), each as wide as the decoder derives from a run-in   *)
(* of 13 + e samples; the row is then cut by -tail or padded by tail low   *)
(* samples.  The variant names the one way the row departs from that.      *)
(***************************************************************************)
BytePairs == {<<0, 0>>, <<65, 0>>, <<1, 127>>, <<42, 85>>, <<64, 2>>,
              <<127, 65>>}

Variants == {"clean", "pedestal", "dim", "wobble", "blank", "black",
             "burst6", "cycles6", "cycles8", "silent", "dead1", "dead2",
             "nostart", "flip1", "flip2", "cutdata"}

Params ==
    {[s |-> s, e |-> e, b1 |-> bp[1], b2 |-> bp[2], tail |-> t, variant |-> v] :
        s \in 0..MaxShift, e \in 0..MaxStretch, bp \in BytePairs,
        t \in (-MaxCut)..MaxPad, v \in Variants}

DataBit(b, k) == (b \div (2 ^ k)) % 2
PopCount(b) == Cardinality({k \in 0..6 : DataBit(b, k) = 1})
OddParityBit(b) == (PopCount(b) + 1) % 2
ByteBits(b, flip) ==
    [k \in 1..8 |-> IF k <= 7 THEN DataBit(b, k - 1)
                    ELSE IF flip THEN 1 - OddParityBit(b)
                    ELSE OddParityBit(b)]

Cycles(p) ==
    IF p.variant \in {"burst6", "cycles6"} THEN 6
    ELSE IF p.variant = "cycles8" THEN 8 ELSE 7

RunInWave(p) ==
    Rep(1, 1 + p.e) \o [i \in 1..(2 * Cycles(p) - 2) |-> (i + 1) % 2]

SlotWidth(p) == BitWidthOf(13 + p.e)

Payload(p) ==
    IF p.variant \in {"silent", "burst6"} THEN Rep(0, 19)
    ELSE << IF p.variant = "dead1" THEN 1 ELSE 0,
            IF p.variant = "dead2" THEN 1 ELSE 0,
            IF p.variant = "nostart" THEN 0 ELSE 1 >>
         \o ByteBits(p.b1, p.variant = "flip1")
         \o ByteBits(p.b2, p.variant = "flip2")

Stretch(bits, w) ==
    [i \in 1..(Len(bits) * w) |-> bits[((i - 1) \div w) + 1]]

Waveform(p) ==
    LET whole == Rep(0, p.s) \o RunInWave(p) \o Stretch(Payload(p), SlotWidth(p))
        full == IF p.variant = "cutdata"
                THEN SubSeq(whole, 1, p.s + Len(RunInWave(p)) + 3 * SlotWidth(p))
                ELSE whole
    IN  IF p.tail >= 0 THEN full \o Rep(0, p.tail)
        ELSE SubSeq(full, 1, Len(full) + p.tail)

PeakLevel(p) ==
    IF p.variant = "dim" THEN 32
    ELSE IF p.variant = "blank" THEN 31
    ELSE IF p.variant = "black" THEN 0 ELSE 255

LowLevel(p) ==
    IF p.variant = "pedestal" THEN 76
    ELSE IF p.variant = "wobble" THEN 127 ELSE 0

Encode(p) ==
    LET w == Waveform(p)
    IN  [i \in 1..Len(w) |-> IF w[i] = 1 THEN PeakLevel(p) ELSE LowLevel(p)]

(***************************************************************************)
(* One call of decodeFrame, stage by stage.                                *)
(***************************************************************************)
Goto(stage) == pc' = stage /\ trace' = Append(trace, stage)

IdleBatch ==
    /\ images = <<>> /\ threads = 0 /\ taskq = <<>> /\ running = <<>>
    /\ results = <<>> /\ bytes = <<>> /\ ri = 0 /\ doneOrder = <<>>
    /\ pcB = "Idle"

Init ==
    /\ enc \in Params
    /\ pixels = Encode(enc)
    /\ DEBUG \in BOOLEAN
    /\ pc = "Start"
    /\ trace = <<"Start">>
    /\ values = <<>>
    /\ startRunIn = 0
    /\ stopRunIn = 0
    /\ bitWidth = 0
    /\ bitStart = 0
    /\ sanity = <<>>
    /\ data = <<>>
    /\ result = Pending
    /\ reads = {}
    /\ IdleBatch

\* lines 92-116
Normalize ==
    /\ pc = "Start"
    /\ IF IsBlank(MaxLuma(pixels))
       THEN /\ values' = pixels
            /\ result' = Sentinel
            /\ Goto("Rejected")
       ELSE /\ values' = Binarize(pixels, MaxLuma(pixels))
            /\ result' = result
            /\ Goto("Normalized")
    /\ UNCHANGED <<pixels, DEBUG, startRunIn, stopRunIn, bitWidth, bitStart,
                   sanity, data, reads, enc>>
    /\ UNCHANGED batchVars

\* lines 118-160
LocateRunIn ==
    /\ pc = "Normalized"
    /\ LET start == FirstOne(values)
           stop == FindStopRunIn(values, start)
       IN  /\ startRunIn' = start
           /\ IF TooLate(start, Len(pixels))
              THEN /\ stopRunIn' = stopRunIn
                   /\ result' = Sentinel
                   /\ Goto("Rejected")
              ELSE /\ stopRunIn' = stop
                   /\ IF stop = 0 \/ RunInOutOfRange(stop, Len(pixels))
                      THEN result' = Sentinel /\ Goto("Rejected")
                      ELSE result' = result /\ Goto("RunInFound")
    /\ UNCHANGED <<pixels, DEBUG, values, bitWidth, bitStart, sanity, data,
                   reads, enc>>
    /\ UNCHANGED batchVars

\* lines 165-175
Calibrate ==
    /\ pc = "RunInFound"
    /\ bitWidth' = BitWidthOf(stopRunIn - startRunIn)
    /\ bitStart' = stopRunIn
    /\ Goto("EdgeScan")
    /\ UNCHANGED <<pixels, DEBUG, values, startRunIn, stopRunIn, sanity,
                   data, result, reads, enc>>
    /\ UNCHANGED batchVars

\* lines 176-177: one iteration of the while loop
EdgeScanStep ==
    /\ pc = "EdgeScan"
    /\ EdgeScanContinue(values, bitStart)
    /\ bitStart' = bitStart + 1
    /\ reads' = reads \cup {bitStart}
    /\ UNCHANGED <<pixels, DEBUG, pc, trace, values, startRunIn, stopRunIn,
                   bitWidth, sanity, data, result, enc>>
    /\ UNCHANGED batchVars

\* lines 176 and 178: the loop condition fails
EdgeScanExit ==
    /\ pc = "EdgeScan"
    /\ ~EdgeScanContinue(values, bitStart)
    /\ bitStart' = bitStart + bitWidth
    /\ reads' = reads \cup {bitStart}
    /\ Goto("Calibrated")
    /\ UNCHANGED <<pixels, DEBUG, values, startRunIn, stopRunIn, bitWidth,
                   sanity, data, result, enc>>
    /\ UNCHANGED batchVars

\* lines 209-217, and 240-245 when the check raises ValueError
SanityCheck ==
    /\ pc = "Calibrated"
    /\ reads' = reads \cup SanityReads(values, bitStart, bitWidth, DEBUG)
    /\ IF SanityRaises(values, bitStart, bitWidth, DEBUG)
       THEN /\ sanity' = sanity
            /\ result' = RaisedIndexError
            /\ Goto("Raised")
       ELSE /\ sanity' = SanityOf(values, bitStart, bitWidth)
            /\ IF sanity' # <<0, 0, 1>>
               THEN result' = OnValueError(DEBUG) /\ Goto("Rejected")
               ELSE result' = result /\ Goto("SanityChecked")
    /\ UNCHANGED <<pixels, DEBUG, values, startRunIn, stopRunIn, bitWidth,
                   bitStart, data, enc>>
    /\ UNCHANGED batchVars

\* lines 219-238, one pass of `for base in (0, 8)`, and 240-245 on ValueError
AssembleNext ==
    /\ pc = "SanityChecked"
    /\ Len(data) < 2
    /\ LET got == AssembleByte(values, bitStart, bitWidth, DEBUG, 8 * Len(data))
       IN  /\ reads' = reads \cup got.reads
           /\ IF got.kind = "IndexError"
              THEN data' = data /\ result' = RaisedIndexError /\ Goto("Raised")
              ELSE IF got.kind = "ValueError"
              THEN /\ data' = data
                   /\ result' = OnValueError(DEBUG)
                   /\ Goto("Rejected")
              ELSE /\ data' = Append(data, got.byte)
                   /\ result' = result
                   /\ IF Len(data) = 1 THEN Goto("BytesAssembled")
                      ELSE UNCHANGED <<pc, trace>>
    /\ UNCHANGED <<pixels, DEBUG, values, startRunIn, stopRunIn, bitWidth,
                   bitStart, sanity, enc>>
    /\ UNCHANGED batchVars

\* line 239
ReturnData ==
    /\ pc = "BytesAssembled"
    /\ result' = Returned(data)
    /\ Goto("Done")
    /\ UNCHANGED <<pixels, DEBUG, values, startRunIn, stopRunIn, bitWidth,
                   bitStart, sanity, data, reads, enc>>
    /\ UNCHANGED batchVars

Next ==
    \/ Normalize
    \/ LocateRunIn
    \/ Calibrate
    \/ EdgeScanStep
    \/ EdgeScanExit
    \/ SanityCheck
    \/ AssembleNext
    \/ ReturnData

Spec == Init /\ [][Next]_vars

\* a call that has started runs on until it returns or raises
FairSpec == Spec /\ WF_vars(Next)

Terminal == pc \in {"Done", "Rejected", "Raised"}

(***************************************************************************)
(* getByteStream, lines 248-263.  pool.starmap hands the argument lists to *)
(* the pool's workers in list order, each worker runs decodeFrame on the   *)
(* task it took, and the call returns the list of return values indexed as *)
(* the argument lists were, or re-raises what a task raised.               *)
(***************************************************************************)
FrameLib ==
    { [s |-> 0, e |-> 0, b1 |-> 65, b2 |-> 0, tail |-> 0, variant |-> "clean"],
      [s |-> 1, e |-> 2, b1 |-> 1, b2 |-> 127, tail |-> -1, variant |-> "clean"],
      [s |-> 0, e |-> 0, b1 |-> 65, b2 |-> 0, tail |-> 0, variant |-> "silent"] }

IdleFrame ==
    /\ enc = <<>> /\ pixels = <<>> /\ pc = "Idle" /\ trace = <<>>
    /\ values = <<>> /\ startRunIn = 0 /\ stopRunIn = 0 /\ bitWidth = 0
    /\ bitStart = 0 /\ sanity = <<>> /\ data = <<>> /\ result = Pending
    /\ reads = {}

BatchInit ==
    /\ \E n \in 0..MaxFrames : images \in [1..n -> FrameLib]
    /\ threads \in 1..MaxWorkers
    /\ DEBUG \in BOOLEAN
    /\ taskq = <<>>
    /\ running = <<>>
    /\ results = <<>>
    /\ bytes = <<>>
    /\ ri = 0
    /\ doneOrder = <<>>
    /\ pcB = "Start"
    /\ IdleFrame

\* lines 253-257: the pool is created and the argument lists are queued
Dispatch ==
    /\ pcB = "Start"
    /\ taskq' = [i \in 1..Len(images) |-> i]
    /\ running' = [w \in 1..threads |-> 0]
    /\ results' = [i \in 1..Len(images) |-> Pending]
    /\ pcB' = "Mapping"
    /\ UNCHANGED <<images, threads, bytes, ri, doneOrder>>
    /\ UNCHANGED frameVars

\* an idle worker takes the next queued task
WorkerTake(w) ==
    /\ pcB = "Mapping"
    /\ running[w] = 0
    /\ taskq # <<>>
    /\ running' = [running EXCEPT ![w] = Head(taskq)]
    /\ taskq' = Tail(taskq)
    /\ UNCHANGED <<images, threads, results, bytes, ri, doneOrder, pcB>>
    /\ UNCHANGED frameVars

\* mutant: return values are kept in the order the workers finish
StoreResultMut(res, i, v) ==
    LET first == CHOOSE k \in 1..Len(res) :
                     /\ res[k] = Pending
                     /\ \A j \in 1..(k - 1) : res[j] # Pending
    IN  [res EXCEPT ![first] = v]
\* where the pool puts the return value of task i
StoreResult(res, i, v) == [res EXCEPT ![i] = v]

\* a worker finishes decodeFrame(*iterArgs[i])
WorkerFinish(w) ==
    /\ pcB = "Mapping"
    /\ running[w] # 0
    /\ results' = StoreResult(results, running[w],
                              DecodeFrame(Encode(images[running[w]]), DEBUG))
    /\ doneOrder' = Append(doneOrder, running[w])
    /\ running' = [running EXCEPT ![w] = 0]
    /\ UNCHANGED <<images, threads, taskq, bytes, ri, pcB>>
    /\ UNCHANGED frameVars

\* line 257: starmap returns once every task is done
MapReturn ==
    /\ pcB = "Mapping"
    /\ \A i \in 1..Len(results) : results[i] # Pending
    /\ IF \E i \in 1..Len(results) : results[i] = RaisedIndexError
       THEN pcB' = "Raised" /\ ri' = ri
       ELSE pcB' = "Collect" /\ ri' = 1
    /\ UNCHANGED <<images, threads, taskq, running, results, bytes, doneOrder>>
    /\ UNCHANGED frameVars

\* lines 261-262: `for b in r: bytes.append(b)`; iterating None raises TypeError
AppendResult ==
    /\ pcB = "Collect"
    /\ ri <= Len(results)
    /\ IF results[ri] = ReturnNone
       THEN pcB' = "Raised" /\ bytes' = bytes /\ ri' = ri
       ELSE pcB' = pcB /\ bytes' = bytes \o results[ri].val /\ ri' = ri + 1
    /\ UNCHANGED <<images, threads, taskq, running, results, doneOrder>>
    /\ UNCHANGED frameVars

\* line 263
ReturnBytes ==
    /\ pcB = "Collect"
    /\ ri > Len(results)
    /\ pcB' = "Returned"
    /\ UNCHANGED <<images, threads, taskq, running, results, bytes, ri, doneOrder>>
    /\ UNCHANGED frameVars

BatchNext ==
    \/ Dispatch
    \/ \E w \in 1..threads : WorkerTake(w)
    \/ \E w \in 1..threads : WorkerFinish(w)
    \/ MapReturn
    \/ AppendResult
    \/ ReturnBytes

BatchSpec == BatchInit /\ [][BatchNext]_vars

(***************************************************************************)
(* Properties.                                                             *)
(***************************************************************************)
Width == Len(pixels)
PastLocator == "RunInFound" \in Range(trace)

\* C1: decodeFrame returns exactly two byte values for every frame and every
\* DEBUG; every failed guard returns the sentinel pair (0, 0); the value
\* returned does not depend on DEBUG.
C1_TwoBytesOnEveryPath ==
    Terminal =>
        /\ result.ret = "value"
        /\ Len(result.val) = 2
        /\ (pc = "Rejected" => result = Sentinel)
        /\ result = DecodeFrame(pixels, ~DEBUG)

\* C2: a row that is a valid encoding of two 7-bit values (7-cycle run-in
\* starting in the first 5% of the width and ending between 20% and 30% of
\* it, two low dead slots, a high start bit, 7 data bits LSB first and an
\* odd-parity bit per byte, every slot whole) decodes to the two encoded
\* values in order.
ValidEncoding ==
    /\ enc.variant \in {"clean", "pedestal", "dim"}
    /\ enc.tail >= 0
    /\ 20 * enc.s <= Width
    /\ Width <= 5 * (enc.s + 13 + enc.e)
    /\ 10 * (enc.s + 13 + enc.e) <= 3 * Width

C2_RoundTrip ==
    Terminal /\ ValidEncoding =>
        pc = "Done" /\ result = Returned(<<enc.b1, enc.b2>>)

C2_Witness ==
    /\ pc = "Done"
    /\ ValidEncoding
    /\ enc.b1 = 42 /\ enc.b2 = 85
    /\ bitWidth = 3
    /\ result = Returned(<<42, 85>>)

\* C3: decodeFrame never subscripts the binary row outside [0, width), in the
\* edge scan, in getBit's sample and in getBit's diagnostic reads, never
\* raises, and a sampled bit whose offset is outside the row yields (0, 0).
C3_NeverReadsOutsideRow ==
    /\ \A o \in reads : 0 <= o /\ o < Width
    /\ pc # "Raised"
    /\ pc = "Done" =>
           \A bit \in -3..15 :
               ~OutOfRange(values, Offset(bitStart, bitWidth, bit))
    /\ Terminal /\ -1 \in Range(sanity) => result = Sentinel

\* C4: when getByteStream returns, output bytes 2i and 2i+1 are the return
\* value of decodeFrame on the i-th input frame, in whatever order the pool's
\* workers finished and for every pool size; the bytes appended so far are
\* always those of a prefix of the input list.
C4_InputOrder ==
    pcB \in {"Collect", "Returned"} =>
        /\ Len(bytes) = 2 * (ri - 1)
        /\ \A i \in 1..(ri - 1) :
               <<bytes[2 * i - 1], bytes[2 * i]>>
                   = DecodeFrame(Encode(images[i]), DEBUG).val

C4_Witness ==
    /\ pcB = "Returned"
    /\ Len(images) = 3
    /\ doneOrder = <<2, 3, 1>>
    /\ bytes = <<65, 0, 1, 127, 0, 0>>

\* C5: for every list of N readable frames and every DEBUG, getByteStream
\* completes and returns exactly 2 x N bytes; a rejected frame contributes
\* two zero bytes and never aborts the batch.
C5_TwoBytesPerFrame ==
    /\ pcB # "Raised"
    /\ pcB = "Returned" => Len(bytes) = 2 * Len(images)

\* C6: a row whose maximum sample is below 32 returns (0, 0) straight from
\* the first stage: the samples are never normalised, no run-in is searched
\* and no bit is sampled.
C6_BlankRejectedFirst ==
    (\A i \in 1..Width : pixels[i] < 32) /\ pc # "Start" =>
        /\ pc = "Rejected"
        /\ trace = <<"Start", "Rejected">>
        /\ result = Sentinel
        /\ values = pixels
        /\ startRunIn = 0 /\ stopRunIn = 0 /\ bitWidth = 0 /\ bitStart = 0
        /\ sanity = <<>> /\ data = <<>> /\ reads = {}

C6_Witness ==
    /\ pc = "Rejected"
    /\ DEBUG
    /\ Width > 0
    /\ \A i \in 1..Width : pixels[i] < 32
    /\ \E i \in 1..Width : pixels[i] = 31

\* C7: decodeFrame returns data only when none of the eight reads of either
\* byte group, the parity-bit reads of bits 7 and 15 included, was out of
\* range.
C7_NoDataWhenParityBitOutOfRange ==
    pc = "Done" =>
        \A base \in {0, 8} : \A b \in 0..7 :
            GetBit(values, bitStart, bitWidth, base + b) # -1

\* C8: past the run-in locator, startRunIn is the index of the first 1 of the
\* binary row and at most 5% of the width, stopRunIn is the index of the 13th
\* value change counted from startRunIn and lies between 20% and 30% of the
\* width; a binary row with no 1, with its first 1 later than 5% of the width
\* or with fewer than 13 value changes after it is rejected with (0, 0).
ChangesIn(vals, a, x) ==
    Cardinality({k \in (a + 1)..x : At(vals, k) # At(vals, k - 1)})

Ones(vals) == {x \in 0..(Len(vals) - 1) : At(vals, x) = 1}

NoRunIn(vals) ==
    \/ Ones(vals) = {}
    \/ \E x \in Ones(vals) :
           /\ \A y \in Ones(vals) : x <= y
           /\ \/ 20 * x > Len(vals)
              \/ ChangesIn(vals, x, Len(vals) - 1) < 13

C8_RunDescriptor ==
    /\ PastLocator =>
           /\ startRunIn \in Ones(values)
           /\ \A x \in Ones(values) : startRunIn <= x
           /\ 20 * startRunIn <= Width
           /\ stopRunIn > startRunIn
           /\ At(values, stopRunIn) # At(values, stopRunIn - 1)
           /\ ChangesIn(values, startRunIn, stopRunIn) = 13
           /\ 5 * stopRunIn >= Width
           /\ 10 * stopRunIn <= 3 * Width
    /\ Len(trace) = 3 /\ trace[2] = "Normalized" /\ NoRunIn(values) =>
           /\ pc = "Rejected"
           /\ trace[3] = "Rejected"
           /\ result = Sentinel

C8_Witness ==
    /\ pc = "RunInFound"
    /\ startRunIn = 2
    /\ stopRunIn = 17
    /\ ChangesIn(values, startRunIn, stopRunIn) = 13

\* C9: one run passes through Start, Normalized, RunInFound, Calibrated,
\* SanityChecked, BytesAssembled, Done strictly in that order, a failed guard
\* leads only to the terminal Rejected(0, 0), and the run ends in Done or in
\* Rejected(0, 0).
StageRank(stage) ==
    CASE stage = "Start" -> 0
      [] stage = "Normalized" -> 1
      [] stage = "RunInFound" -> 2
      [] stage = "EdgeScan" -> 3
      [] stage = "Calibrated" -> 4
      [] stage = "SanityChecked" -> 5
      [] stage = "BytesAssembled" -> 6
      [] stage = "Done" -> 7
      [] OTHER -> 8

StagesInOrder ==
    /\ \A i \in 1..(Len(trace) - 1) : StageRank(trace[i]) < StageRank(trace[i + 1])
    /\ pc = "Done" =>
           trace = <<"Start", "Normalized", "RunInFound", "EdgeScan",
                     "Calibrated", "SanityChecked", "BytesAssembled", "Done">>

C9_StagesEndInDoneOrRejected ==
    /\ StagesInOrder
    /\ Terminal =>
           \/ pc = "Done" /\ result = Returned(data)
           \/ pc = "Rejected" /\ result = Sentinel

\* every run of decodeFrame ends: no scan loop runs forever
EveryRunEnds == <>Terminal

\* C10: if the binary row holds no 1 after stopRunIn, the edge scan stops at
\* the last column, the start-bit sample is 0 or out of range, the sanity
\* check fails and decodeFrame never returns decoded data for the frame.
NoOneAfterStop ==
    /\ PastLocator
    /\ \A x \in Ones(values) : x <= stopRunIn

C10_NoStartBitNoData ==
    NoOneAfterStop =>
        /\ pc = "EdgeScan" => bitStart <= Width - 1
        /\ "Calibrated" \in Range(trace) => bitStart = (Width - 1) + bitWidth
        /\ pc \notin {"SanityChecked", "BytesAssembled", "Done", "Raised"}
        /\ data = <<>>
        /\ Terminal =>
               /\ sanity[3] \in {0, -1}
               /\ result = IF DEBUG THEN ReturnNone ELSE Sentinel

C10_Witness ==
    /\ NoOneAfterStop
    /\ pc = "Rejected"
    /\ sanity = <<0, 0, -1>>
    /\ Width - 1 \in reads

====
